---- MODULE Spec2Model ----
(***************************************************************************)
(* A model of the tracer of src/src/tracer/mod.rs: the struct Tracer, its  *)
(* static registration phase (push_init_memory, push_global, push_elem,    *)
(* register_module_instance) and its execution-time operations             *)
(* (push_frame, pop_frame, last_jump_eid, eid and the lookups).            *)
(*                                                                         *)
(* A panic (an unwrap() of None, unreachable!(), an arithmetic overflow of *)
(* a build with overflow checks) ends the run: panic names the cause, pc   *)
(* stays where the panic happened, and no operation is enabled afterwards.  *)
(*                                                                         *)
(* TLC's integers are 32-bit signed, so a u32 is kept as two 16-bit limbs  *)
(* <<hi, lo>> and a u64 as four 16-bit limbs, most significant first.      *)
(*                                                                         *)
(* The memory image, the indirect-call table, the frame markers and the    *)
(* function registration are separate fields of Tracer that no operation   *)
(* shares, so each has a specification of its own (SpecMem, SpecElem,      *)
(* SpecFrame, Spec) over the same variables.                               *)
(***************************************************************************)
EXTENDS Integers, Sequences, FiniteSets, TLC

(* ------------------------------ bounds --------------------------------- *)
MaxPages == 1
MaxFuncs == 3
MaxElems == 3
MaxEid == 3
MaxDepth == 3
MaxFrameOps == 5

(* ------------------------- program constants --------------------------- *)
WordsPerPage == 8192
BytesPerWord == 8
FirstFuncIndex == 1
StartFuncIndex == 0

VARIABLES
  (* the objects handed to the tracer by the interpreter *)
  module,                  \* the instantiated module: functions, start, exports
  memory,                  \* the MemoryRef given to push_init_memory
  globals,                 \* the GlobalRefs given to push_global, by index
  overflow_checks,         \* whether the build panics on integer overflow
  (* the fields of Tracer *)
  itable,
  imtable,
  elem_table,
  etable_eid,              \* etable.get_latest_eid()
  function_lookup,
  last_jump_eid,
  function_index_allocator,
  function_index_translation,
  phantom_functions,
  phantom_functions_ref,
  wasm_input_func_idx,
  wasm_input_func_ref,
  (* control *)
  pc,                      \* "new", "translate", "phantom", "itable", "done"
  func_index,              \* the loop variable of register_module_instance
  panic,                   \* the cause of the abort, "" while running
  last,                    \* the last operation: [op, arg, val]
  mem_done,                \* push_init_memory has been called
  next_global,             \* the index of the next global to snapshot
  pushes,                  \* number of push_frame calls so far
  pops,                    \* number of pop_frame calls that returned
  elem_calls               \* the arguments of the push_elem calls so far, in call order

inputs == <<module, memory, globals, overflow_checks>>
tables == <<itable, imtable>>
funcs == <<function_lookup, function_index_allocator, function_index_translation,
           phantom_functions, phantom_functions_ref, wasm_input_func_idx,
           wasm_input_func_ref>>
frames == <<last_jump_eid, etable_eid, pushes, pops>>
elems == <<elem_table, elem_calls>>
control == <<pc, func_index, panic, last, mem_done, next_global>>
vars == <<inputs, tables, elems, funcs, frames, control>>

(* ------------------------------ options -------------------------------- *)
None == [some |-> FALSE]
Some(x) == [some |-> TRUE, val |-> x]

(* ------------------------- fixed-width integers ------------------------ *)
Limb == 65536

\* a u32 below 2^31, as limbs
ToU32(n) == <<n \div Limb, n % Limb>>

U32_MAX == <<Limb - 1, Limb - 1>>

\* n - 1 on u32, wrapping (n < 2^31)
WrappingDec(n) == IF n = 0 THEN U32_MAX ELSE ToU32(n - 1)

\* u64::from_le_bytes: buf[1] is the least significant byte
from_le_bytes(buf) ==
  << buf[7] + 256 * buf[8], buf[5] + 256 * buf[6],
     buf[3] + 256 * buf[4], buf[1] + 256 * buf[2] >>

U64Zero == <<0, 0, 0, 0>>

NoOp == [op |-> "none", arg |-> 0, val |-> 0]

(* ------------------------ the memory and globals ----------------------- *)
BytesPerPage == WordsPerPage * BytesPerWord

MemFills == {"zero", "mix"}

\* the byte stored at byte address a of a memory
MemByte(mem, a) ==
  CASE mem.fill = "zero" -> 0
    [] OTHER -> (a * 7 + a \div 256) % 256

\* MemoryInstance::get_into(offset, buf) with an 8-byte buffer
get_into(mem, offset) ==
  IF offset + BytesPerWord > mem.initial * BytesPerPage
  THEN None
  ELSE Some([k \in 1..BytesPerWord |-> MemByte(mem, offset + k - 1)])

\* the memories a module can declare: initial <= maximum when one is declared
Memories ==
  { [initial |-> p, maximum |-> m, fill |-> f] :
      p \in 0..MaxPages, m \in {None} \cup {Some(x) : x \in 0..MaxPages}, f \in MemFills }

ValidMemory(mem) ==
  /\ mem.maximum.some => mem.initial <= mem.maximum.val
  /\ mem.initial = 0 => mem.fill = "zero"

G1 == [vtype |-> "I32", mutable |-> FALSE, bits |-> <<0, 0, 0, 5>>]
G2 == [vtype |-> "I64", mutable |-> TRUE, bits |-> <<1, 2, 3, 4>>]
G3 == [vtype |-> "I32", mutable |-> TRUE, bits |-> <<65535, 65535, 65535, 65535>>]
G4 == [vtype |-> "F64", mutable |-> FALSE, bits |-> <<16368, 0, 0, 0>>]

GlobalLists == {<<>>, <<G1>>, <<G3, G2>>, <<G4>>}

\* runner::from_value_internal_to_u64_with_typ: a 32-bit type keeps the low 32 bits
from_value_internal_to_u64_with_typ(vtype, bits) ==
  IF vtype \in {"I32", "F32"} THEN <<0, 0, bits[3], bits[4]>> ELSE bits

\* IMTable::push: one row appended to the image
IMTable_push(tbl, is_global, is_mutable, start_offset, end_offset, vtype, value) ==
  Append(tbl, [is_global |-> is_global, is_mutable |-> is_mutable,
               start_offset |-> start_offset, end_offset |-> end_offset,
               vtype |-> vtype, value |-> value])

\* a variant of the loop that reads word i at byte offset i, not i * 8
InitMemoryWords_ByteOffset(tbl, mem) ==
  LET n == mem.initial * WordsPerPage
      word(i) == get_into(mem, i)
  IN [ok |-> TRUE,
      tbl |-> tbl \o [j \in 1..n |->
                [is_global |-> FALSE, is_mutable |-> TRUE,
                 start_offset |-> ToU32(j - 1), end_offset |-> ToU32(j - 1),
                 vtype |-> "I64", value |-> from_le_bytes(word(j - 1).val)]]]

\* the loop of push_init_memory: one row per 8-byte word of the initial pages
InitMemoryWords(tbl, mem) ==
  LET pages == mem.initial
      n == pages * WordsPerPage
      word(i) == get_into(mem, i * BytesPerWord)
  IN IF \E i \in 0..(n - 1) : ~word(i).some
     THEN [ok |-> FALSE, tbl |-> tbl]
     ELSE [ok |-> TRUE,
           tbl |-> tbl \o [j \in 1..n |->
                     [is_global |-> FALSE, is_mutable |-> TRUE,
                      start_offset |-> ToU32(j - 1), end_offset |-> ToU32(j - 1),
                      vtype |-> "I64", value |-> from_le_bytes(word(j - 1).val)]]]

\* limit * 8192 - 1 on u32: None when the build checks overflow and it overflows
SentinelEnd(mem, checks) ==
  IF ~mem.maximum.some THEN Some(U32_MAX)
  ELSE IF mem.maximum.val * WordsPerPage = 0 /\ checks THEN None
  ELSE Some(WrappingDec(mem.maximum.val * WordsPerPage))

\* push_init_memory, as [tbl, panic]
InitMemoryImage(tbl, mem, checks) ==
  LET w == InitMemoryWords(tbl, mem)
      e == SentinelEnd(mem, checks)
  IN IF ~w.ok THEN [tbl |-> w.tbl, panic |-> "get_into failed"]
     ELSE IF ~e.some THEN [tbl |-> w.tbl, panic |-> "attempt to subtract with overflow"]
     ELSE [tbl |-> IMTable_push(w.tbl, FALSE, TRUE, ToU32(mem.initial * WordsPerPage),
                                e.val, "I64", U64Zero),
           panic |-> ""]

push_init_memory ==
  /\ panic = ""
  /\ pc = "new"
  /\ ~mem_done
  /\ LET r == InitMemoryImage(imtable, memory, overflow_checks)
     IN /\ imtable' = r.tbl
        /\ panic' = r.panic
        /\ pc' = pc
  /\ mem_done' = TRUE
  /\ last' = [op |-> "push_init_memory", arg |-> memory.initial, val |-> Len(imtable)]
  /\ UNCHANGED <<inputs, itable, elems, funcs, frames, func_index, next_global>>

push_global ==
  /\ panic = ""
  /\ pc = "new"
  /\ next_global < Len(globals)
  /\ LET globalidx == next_global
         globalref == globals[next_global + 1]
         vtype == globalref.vtype
     IN imtable' = IMTable_push(imtable, TRUE, globalref.mutable, ToU32(globalidx),
                                ToU32(globalidx), vtype,
                                from_value_internal_to_u64_with_typ(vtype, globalref.bits))
  /\ next_global' = next_global + 1
  /\ last' = [op |-> "push_global", arg |-> next_global, val |-> Len(imtable)]
  /\ UNCHANGED <<inputs, itable, elems, funcs, frames, pc, func_index, panic, mem_done>>

(* ------------------------ the indirect-call table ---------------------- *)
ElemTableIdx == {0}
ElemOffsets == {0, 1}
ElemFuncs == {1, 2}
ElemTypes == {0, 3}

\* ElemTable::insert: the entry is appended
ElemTable_insert(tbl, entry) == Append(tbl, entry)

\* a variant that takes the last two arguments in the order of the struct's fields
ElemEntryOf_Swapped(table_idx, offset, func_idx, type_idx) ==
  [table_idx |-> table_idx, type_idx |-> func_idx, offset |-> offset, func_idx |-> type_idx]

\* the ElemEntry push_elem builds from its arguments
ElemEntryOf(table_idx, offset, func_idx, type_idx) ==
  [table_idx |-> table_idx, type_idx |-> type_idx, offset |-> offset, func_idx |-> func_idx]

push_elem ==
  /\ panic = ""
  /\ pc = "new"
  /\ Len(elem_calls) < MaxElems
  /\ \E table_idx \in ElemTableIdx, offset \in ElemOffsets,
        func_idx \in ElemFuncs, type_idx \in ElemTypes :
       /\ elem_table' = ElemTable_insert(elem_table,
                                         ElemEntryOf(table_idx, offset, func_idx, type_idx))
       /\ elem_calls' = Append(elem_calls, <<table_idx, offset, func_idx, type_idx>>)
       /\ last' = [op |-> "push_elem", arg |-> offset, val |-> Len(elem_table)]
  /\ UNCHANGED <<inputs, tables, funcs, frames, pc, func_index, panic, mem_done, next_global>>

(* ------------------------- frames and event ids ------------------------ *)
\* EventTable::get_latest_eid
get_latest_eid == etable_eid

\* the event table records one executed instruction
etable_push ==
  /\ panic = ""
  /\ pc \in {"new", "done"}
  /\ etable_eid < MaxEid
  /\ etable_eid' = etable_eid + 1
  /\ last' = [op |-> "etable_push", arg |-> 0, val |-> etable_eid + 1]
  /\ UNCHANGED <<inputs, tables, elems, funcs, last_jump_eid, pushes, pops,
                 pc, func_index, panic, mem_done, next_global>>

\* a variant that inserts the marker at the bottom of the stack
FramePush_Front(stack, marker) == <<marker>> \o stack

\* Vec::push of the marker
FramePush(stack, marker) == Append(stack, marker)

\* a variant of pop_frame without the unwrap: an empty stack is left as it is
FramePop_Unchecked(stack) ==
  IF stack = <<>> THEN Some(stack) ELSE Some(SubSeq(stack, 1, Len(stack) - 1))

\* Vec::pop().unwrap(): None is the panic
FramePop(stack) ==
  IF stack = <<>> THEN None ELSE Some(SubSeq(stack, 1, Len(stack) - 1))

\* a variant that reads the bottom of the stack: first() for last()
FrameLast_First(stack) ==
  IF stack = <<>> THEN None ELSE Some(stack[1])

\* Vec::last().unwrap(): None is the panic
FrameLast(stack) ==
  IF stack = <<>> THEN None ELSE Some(stack[Len(stack)])

push_frame ==
  /\ panic = ""
  /\ pc \in {"new", "done"}
  /\ Len(last_jump_eid) < MaxDepth
  /\ pushes + pops < MaxFrameOps
  /\ last_jump_eid' = FramePush(last_jump_eid, get_latest_eid)
  /\ pushes' = pushes + 1
  /\ last' = [op |-> "push_frame", arg |-> Len(last_jump_eid), val |-> get_latest_eid]
  /\ UNCHANGED <<inputs, tables, elems, funcs, etable_eid, pops,
                 pc, func_index, panic, mem_done, next_global>>

pop_frame ==
  /\ panic = ""
  /\ pc \in {"new", "done"}
  /\ pushes + pops < MaxFrameOps
  /\ LET r == FramePop(last_jump_eid)
     IN IF r.some
        THEN /\ last_jump_eid' = r.val
             /\ pops' = pops + 1
             /\ UNCHANGED <<pc, panic>>
        ELSE /\ pc' = pc
             /\ panic' = "pop_frame: unwrap on None"
             /\ UNCHANGED <<last_jump_eid, pops>>
  /\ last' = [op |-> "pop_frame", arg |-> Len(last_jump_eid), val |-> 0]
  /\ UNCHANGED <<inputs, tables, elems, funcs, etable_eid, pushes,
                 func_index, mem_done, next_global>>

get_last_jump_eid ==
  /\ panic = ""
  /\ pc \in {"new", "done"}
  /\ LET r == FrameLast(last_jump_eid)
     IN IF r.some
        THEN /\ last' = [op |-> "last_jump_eid", arg |-> Len(last_jump_eid), val |-> r.val]
             /\ UNCHANGED <<pc, panic>>
        ELSE /\ last' = [op |-> "last_jump_eid", arg |-> 0, val |-> 0]
             /\ pc' = pc
             /\ panic' = "last_jump_eid: unwrap on None"
  /\ UNCHANGED <<inputs, tables, elems, funcs, frames, func_index, mem_done, next_global>>

eid ==
  /\ panic = ""
  /\ pc \in {"new", "done"}
  /\ last' = [op |-> "eid", arg |-> 0, val |-> get_latest_eid]
  /\ UNCHANGED <<inputs, tables, elems, funcs, frames, pc, func_index, panic,
                 mem_done, next_global>>

(* ------------------------- the module instance ------------------------- *)
\* a FuncRef is compared by identity: one allocation per function of an instance
FuncRefOf(i) == [inst |-> "self", idx |-> i]

\* a FuncRef that is no function of the registered instance
ForeignRef == [inst |-> "other", idx |-> 0]

\* isa::Instruction, with the number of slots it takes in the body
ICall(n) == [op |-> "Call", index |-> n, slots |-> 1]
IReturn == [op |-> "Return", index |-> 0, slots |-> 1]
IConst == [op |-> "I32Const", index |-> 0, slots |-> 1]
IBrTable(k) == [op |-> "BrTable", index |-> 0, slots |-> k + 1]

SigVoid == [params |-> 0, ret |-> FALSE]
SigValue == [params |-> 1, ret |-> TRUE]
Signatures == {SigVoid, SigValue}

\* export names, as sequences of characters
Name_get_a == <<"g", "e", "t", "_", "a">>
Name_get_mem == <<"g", "e", "t", "_", "m", "e", "m">>
Name_main == <<"m", "a", "i", "n">>

\* the phantom patterns "^get_.*" and "a"
Pattern_get == [anchored |-> TRUE, lit |-> <<"g", "e", "t", "_">>]
Pattern_a == [anchored |-> FALSE, lit |-> <<"a">>]
PatternLists == {<<>>, <<Pattern_get>>, <<Pattern_get, Pattern_a>>}

\* Regex::is_match for "^lit.*" (anchored) and "lit" (a search)
is_match(re, name) ==
  LET n == Len(re.lit)
  IN IF re.anchored
     THEN n <= Len(name) /\ SubSeq(name, 1, n) = re.lit
     ELSE \E k \in 0..(Len(name) - n) : SubSeq(name, k + 1, k + n) = re.lit

\* the host slots the resolver hands out, and the descriptor table given to new()
HostSlots == {0, 1, 2}

host_function_index_lookup ==
  [s \in {0, 1} |->
     IF s = 0
     THEN [kind |-> "Internal", name |-> "wasm_input", op_index_in_plugin |-> 0,
           plugin |-> "HostInput"]
     ELSE [kind |-> "External", name |-> "ext", op |-> 7, sig |-> "ExternalSig"]]

\* the body of the module-defined function i of a module with n functions: a branch
\* table (3 slots), a call of the next function, a constant, a call of function 0
BodyOf(i, n) == <<IBrTable(2), ICall((i + 1) % n), IConst, ICall(0), IReturn>>

HostFunc(slot, sig) ==
  [internal |-> FALSE, host_func_index |-> slot, body |-> <<>>, signature |-> sig]

WasmFunc(body, sig) ==
  [internal |-> TRUE, host_func_index |-> 0, body |-> body, signature |-> sig]

\* imports come first in the function index space: h host functions, each with a
\* slot of its own choice, then the module-defined functions; one signature for all
FuncListsOf(n, h, sig) ==
  { [j \in 1..n |-> IF j <= h THEN HostFunc(slots[j], sig)
                               ELSE WasmFunc(BodyOf(j - 1, n), sig)] :
      slots \in [1..h -> HostSlots] }

FuncLists ==
  UNION { UNION { FuncListsOf(n, h, sig) : h \in 0..n, sig \in Signatures }
          : n \in 1..MaxFuncs }

\* the export map, iterated in name order
ExportLists(n) ==
  LET mem == [name |-> Name_get_mem, is_func |-> FALSE, func |-> ForeignRef]
      main == [name |-> Name_main, is_func |-> TRUE, func |-> FuncRefOf(n - 1)]
      get(i) == [name |-> Name_get_a, is_func |-> TRUE, func |-> FuncRefOf(i)]
  IN {<<mem, main>>} \cup { <<get(i), mem, main>> : i \in {0, n - 1} }

Modules ==
  UNION { { [funcs |-> f, start |-> st, exports |-> ex] :
              st \in {None} \cup {Some(i) : i \in 0..(Len(f) - 1)},
              ex \in ExportLists(Len(f)) }
          : f \in FuncLists }

NoModule == [funcs |-> <<>>, start |-> None, exports |-> <<>>]
NoMemory == [initial |-> 0, maximum |-> None, fill |-> "zero"]

\* ModuleInstance::func_by_index
func_by_index(m, i) == IF i < Len(m.funcs) THEN Some(FuncRefOf(i)) ELSE None

\* the function behind a FuncRef of the instance
FuncInstanceOf(m, ref) == m.funcs[ref.idx + 1]

\* FuncInstance::body: None for a host function
body_of(m, ref) ==
  IF FuncInstanceOf(m, ref).internal THEN Some(FuncInstanceOf(m, ref).body) ELSE None

(* ---------------------------- registration ----------------------------- *)
EmptyMap == [x \in {} |-> 0]

\* HashMap::insert
MapInsert(m, k, v) == [x \in DOMAIN m \cup {k} |-> IF x = k THEN v ELSE m[x]]

\* allocate_func_index: the index returned and the allocator afterwards
allocate_func_index(allocator) == [r |-> allocator, next |-> allocator + 1]

\* a variant that draws a fresh index for the start function too
StableIndexFor_AllocAlways(func_idx, start_fn_idx, allocator) ==
  [r |-> IF Some(func_idx) = start_fn_idx THEN StartFuncIndex ELSE allocator,
   next |-> allocator + 1]

\* func_index_in_itable: 0 for the start function, a fresh index otherwise
StableIndexFor(func_idx, start_fn_idx, allocator) ==
  IF Some(func_idx) = start_fn_idx
  THEN [r |-> StartFuncIndex, next |-> allocator]
  ELSE allocate_func_index(allocator)

\* a variant that falls back to the descriptor of slot 0
lookup_host_plugin_Default(function_index) ==
  IF function_index \in DOMAIN host_function_index_lookup
  THEN Some(host_function_index_lookup[function_index])
  ELSE Some(host_function_index_lookup[0])

\* lookup_host_plugin: HashMap::get, None is the panic of unwrap()
lookup_host_plugin(function_index) ==
  IF function_index \in DOMAIN host_function_index_lookup
  THEN Some(host_function_index_lookup[function_index])
  ELSE None

\* the FunctionType of a function, None when lookup_host_plugin panics
Classify(f) ==
  IF f.internal THEN Some([kind |-> "WasmFunction"])
  ELSE LET d == lookup_host_plugin(f.host_func_index)
       IN IF ~d.some THEN None
          ELSE IF d.val.kind = "Internal"
          THEN Some([kind |-> "HostFunction", plugin |-> d.val.plugin,
                     function_index |-> f.host_func_index,
                     function_name |-> d.val.name,
                     op_index_in_plugin |-> d.val.op_index_in_plugin])
          ELSE Some([kind |-> "HostFunctionExternal", function_name |-> d.val.name,
                     op |-> d.val.op, sig |-> d.val.sig])

\* wasm_input_func_idx after the test of the function at func_idx
InputIdxAfter(input_idx, input_ref, func, func_idx) ==
  IF Some(func) = input_ref THEN Some(func_idx) ELSE input_idx

\* set by the embedder before registration (a public field)
set_wasm_input_func_ref ==
  /\ panic = ""
  /\ pc = "new"
  /\ ~wasm_input_func_ref.some
  /\ \E h \in {FuncRefOf(0), ForeignRef} : wasm_input_func_ref' = Some(h)
  /\ last' = [op |-> "set_wasm_input_func_ref", arg |-> 0, val |-> 0]
  /\ UNCHANGED <<inputs, tables, elems, frames, function_lookup, function_index_allocator,
                 function_index_translation, phantom_functions, phantom_functions_ref,
                 wasm_input_func_idx, pc, func_index, panic, mem_done, next_global>>

\* register_module_instance is entered: the first loop starts at index 0
register_enter ==
  /\ panic = ""
  /\ pc = "new"
  /\ pc' = "translate"
  /\ func_index' = 0
  /\ last' = [op |-> "register_module_instance", arg |-> 0, val |-> 0]
  /\ UNCHANGED <<inputs, tables, elems, funcs, frames, panic, mem_done, next_global>>

\* a variant of the first loop that also emits the rows of the function it has
\* just indexed, call targets as decoded
register_translate_Fused ==
  /\ panic = ""
  /\ pc = "translate"
  /\ LET fr == func_by_index(module, func_index)
     IN IF ~fr.some
        THEN /\ pc' = "phantom"
             /\ UNCHANGED <<funcs, func_index, panic, itable>>
        ELSE LET func == fr.val
                 f == FuncInstanceOf(module, func)
                 a == StableIndexFor(func_index, module.start, function_index_allocator)
                 ftype == Classify(f)
                 code == IF body_of(module, func).some THEN body_of(module, func).val
                         ELSE <<>>
             IN /\ wasm_input_func_idx' =
                     InputIdxAfter(wasm_input_func_idx, wasm_input_func_ref, func, func_index)
                /\ function_index_allocator' = a.next
                /\ IF ~ftype.some
                   THEN /\ pc' = pc
                        /\ panic' = "lookup_host_plugin: unwrap on None"
                        /\ UNCHANGED <<function_lookup, function_index_translation,
                                       func_index, itable>>
                   ELSE /\ function_lookup' =
                             Append(function_lookup, [func |-> func, idx |-> a.r])
                        /\ function_index_translation' =
                             MapInsert(function_index_translation, func_index,
                                       [index_within_jtable |-> a.r, ftype |-> ftype.val,
                                        signature |-> f.signature])
                        /\ itable' = itable \o
                             [k \in 1..Len(code) |->
                                [fid |-> a.r, iid |-> k - 1,
                                 opcode |-> [op |-> code[k].op, index |-> code[k].index]]]
                        /\ func_index' = func_index + 1
                        /\ UNCHANGED <<pc, panic>>
                /\ UNCHANGED <<phantom_functions, phantom_functions_ref, wasm_input_func_ref>>
  /\ UNCHANGED <<inputs, imtable, elems, frames, last, mem_done, next_global>>

\* one iteration of the first loop (lines 216-273)
register_translate ==
  /\ panic = ""
  /\ pc = "translate"
  /\ LET fr == func_by_index(module, func_index)
     IN IF ~fr.some
        THEN /\ pc' = "phantom"
             /\ UNCHANGED <<funcs, func_index, panic>>
        ELSE LET func == fr.val
                 f == FuncInstanceOf(module, func)
                 a == StableIndexFor(func_index, module.start, function_index_allocator)
                 ftype == Classify(f)
             IN /\ wasm_input_func_idx' =
                     InputIdxAfter(wasm_input_func_idx, wasm_input_func_ref, func, func_index)
                /\ function_index_allocator' = a.next
                /\ IF ~ftype.some
                   THEN /\ pc' = pc
                        /\ panic' = "lookup_host_plugin: unwrap on None"
                        /\ UNCHANGED <<function_lookup, function_index_translation, func_index>>
                   ELSE /\ function_lookup' =
                             Append(function_lookup, [func |-> func, idx |-> a.r])
                        /\ function_index_translation' =
                             MapInsert(function_index_translation, func_index,
                                       [index_within_jtable |-> a.r, ftype |-> ftype.val,
                                        signature |-> f.signature])
                        /\ func_index' = func_index + 1
                        /\ UNCHANGED <<pc, panic>>
                /\ UNCHANGED <<phantom_functions, phantom_functions_ref, wasm_input_func_ref>>
  /\ UNCHANGED <<inputs, tables, elems, frames, last, mem_done, next_global>>

\* a variant that does not test whether the export is a function
RECURSIVE MatchedExports_AnyKind(_, _)
MatchedExports_AnyKind(re, exports) ==
  IF exports = <<>> THEN <<>>
  ELSE LET e == Head(exports)
           rest == MatchedExports_AnyKind(re, Tail(exports))
       IN IF is_match(re, e.name) THEN <<e.func>> \o rest ELSE rest

\* the exports one pattern adds, in export order
RECURSIVE MatchedExports(_, _)
MatchedExports(re, exports) ==
  IF exports = <<>> THEN <<>>
  ELSE LET e == Head(exports)
           rest == MatchedExports(re, Tail(exports))
       IN IF is_match(re, e.name) /\ e.is_func THEN <<e.func>> \o rest ELSE rest

\* the second block (lines 276-288): every pattern against every export
RECURSIVE ResolvePhantoms(_, _, _)
ResolvePhantoms(refs, patterns, exports) ==
  IF patterns = <<>> THEN refs
  ELSE ResolvePhantoms(refs \o MatchedExports(Head(patterns), exports),
                       Tail(patterns), exports)

is_phantom_function(refs, func) == \E k \in 1..Len(refs) : refs[k] = func

register_phantoms ==
  /\ panic = ""
  /\ pc = "phantom"
  /\ phantom_functions_ref' =
       ResolvePhantoms(phantom_functions_ref, phantom_functions, module.exports)
  /\ pc' = "itable"
  /\ func_index' = 0
  /\ UNCHANGED <<inputs, tables, elems, frames, function_lookup, function_index_allocator,
                 function_index_translation, phantom_functions, wasm_input_func_idx,
                 wasm_input_func_ref, panic, last, mem_done, next_global>>

(* -------------------------- instruction table -------------------------- *)
\* PhantomFunction::build_phantom_function_instructions: the host input function is
\* called for the result slot, then the function returns
build_phantom_function_instructions(sig, wasm_input_function_idx) ==
  (IF sig.ret THEN <<IConst, ICall(wasm_input_function_idx)>> ELSE <<>>) \o <<IReturn>>

\* Instruction::into(&function_index_translation): a call target becomes the stable
\* index of the callee; None is the panic of a target the map does not hold
TranslateInstruction(inst, translation) ==
  IF inst.op = "Call"
  THEN IF inst.index \in DOMAIN translation
       THEN Some([op |-> "Call", index |-> translation[inst.index].index_within_jtable])
       ELSE None
  ELSE Some([op |-> inst.op, index |-> inst.index])

\* InstructionTable::push: the row is appended; a second row for (fid, iid) is fatal
InstructionTable_push(tbl, fid, iid, opcode) ==
  IF \E k \in 1..Len(tbl) : tbl[k].fid = fid /\ tbl[k].iid = iid
  THEN None
  ELSE Some(Append(tbl, [fid |-> fid, iid |-> iid, opcode |-> opcode]))

\* the position of the iterator before instruction k of a body
RECURSIVE BodyPosition(_, _)
BodyPosition(code, k) ==
  IF k <= 1 THEN 0 ELSE BodyPosition(code, k - 1) + code[k - 1].slots

\* a variant of the stub loop that numbers every row 0
StubPosition_Zero(code, k) == 0

\* the stub loop (lines 303-309): iid is the enumeration index
StubPosition(code, k) == k - 1

\* a variant that stores the decoded instruction as it is, call targets untranslated
RECURSIVE PushRows_Untranslated(_, _, _, _, _, _)
PushRows_Untranslated(tbl, fid, code, k, translation, is_stub) ==
  IF k > Len(code) THEN Some(tbl)
  ELSE LET iid == IF is_stub THEN StubPosition(code, k) ELSE BodyPosition(code, k)
           t == InstructionTable_push(tbl, fid, iid,
                                      [op |-> code[k].op, index |-> code[k].index])
       IN IF ~t.some THEN None
          ELSE PushRows_Untranslated(t.val, fid, code, k + 1, translation, is_stub)

\* push the rows of instructions k.. of a function; None when a push or a
\* translation panics
RECURSIVE PushRows(_, _, _, _, _, _)
PushRows(tbl, fid, code, k, translation, is_stub) ==
  IF k > Len(code) THEN Some(tbl)
  ELSE LET op == TranslateInstruction(code[k], translation)
           iid == IF is_stub THEN StubPosition(code, k) ELSE BodyPosition(code, k)
       IN IF ~op.some THEN None
          ELSE LET t == InstructionTable_push(tbl, fid, iid, op.val)
               IN IF ~t.some THEN None
                  ELSE PushRows(t.val, fid, code, k + 1, translation, is_stub)

\* a variant that never substitutes the stub
InstructionsFor_BodyOnly(m, func, funcdesc, refs, input_idx) ==
  IF body_of(m, func).some
  THEN Some([code |-> body_of(m, func).val, is_stub |-> FALSE])
  ELSE Some([code |-> <<>>, is_stub |-> FALSE])

\* a variant with unwrap_or(0) for the host input function
InstructionsFor_DefaultInput(m, func, funcdesc, refs, input_idx) ==
  IF is_phantom_function(refs, func)
  THEN Some([code |-> build_phantom_function_instructions(
                        funcdesc.signature, IF input_idx.some THEN input_idx.val ELSE 0),
             is_stub |-> TRUE])
  ELSE IF body_of(m, func).some
       THEN Some([code |-> body_of(m, func).val, is_stub |-> FALSE])
       ELSE Some([code |-> <<>>, is_stub |-> FALSE])

\* the instructions registered for a function (lines 297-327): the stub of a phantom
\* function, the body of another function that has one; None is the panic of
\* wasm_input_func_idx.unwrap()
InstructionsFor(m, func, funcdesc, refs, input_idx) ==
  IF is_phantom_function(refs, func)
  THEN IF input_idx.some
       THEN Some([code |-> build_phantom_function_instructions(funcdesc.signature,
                                                               input_idx.val),
                  is_stub |-> TRUE])
       ELSE None
  ELSE IF body_of(m, func).some
       THEN Some([code |-> body_of(m, func).val, is_stub |-> FALSE])
       ELSE Some([code |-> <<>>, is_stub |-> FALSE])

\* one iteration of the third loop (lines 293-333)
register_itable ==
  /\ panic = ""
  /\ pc = "itable"
  /\ LET fr == func_by_index(module, func_index)
     IN IF ~fr.some
        THEN /\ pc' = "done"
             /\ UNCHANGED <<itable, func_index, panic>>
        ELSE LET func == fr.val
                 funcdesc == function_index_translation[func_index]
                 insts == InstructionsFor(module, func, funcdesc, phantom_functions_ref,
                                          wasm_input_func_idx)
             IN IF ~insts.some
                THEN /\ pc' = pc
                     /\ panic' = "wasm_input_func_idx: unwrap on None"
                     /\ UNCHANGED <<itable, func_index>>
                ELSE LET t == PushRows(itable, funcdesc.index_within_jtable,
                                       insts.val.code, 1, function_index_translation,
                                       insts.val.is_stub)
                     IN IF ~t.some
                        THEN /\ pc' = pc
                             /\ panic' = "itable.push failed"
                             /\ UNCHANGED <<itable, func_index>>
                        ELSE /\ itable' = t.val
                             /\ func_index' = func_index + 1
                             /\ UNCHANGED <<pc, panic>>
  /\ UNCHANGED <<inputs, imtable, elems, funcs, frames, last, mem_done, next_global>>

(* ------------------------------- lookups ------------------------------- *)
\* the FuncRefs a caller can hold
Handles == {FuncRefOf(i) : i \in 0..(Len(module.funcs) - 1)} \cup {ForeignRef}

\* a variant that returns the position found, not the index stored at it
lookup_function_of_Position(lookup, function) ==
  IF \E k \in 1..Len(lookup) : lookup[k].func = function
  THEN Some((CHOOSE k \in 1..Len(lookup) :
               /\ lookup[k].func = function
               /\ \A j \in 1..(k - 1) : lookup[j].func # function) - 1)
  ELSE None

\* lookup_function: position() then get(), None is the panic of unwrap()
lookup_function_of(lookup, function) ==
  IF \E k \in 1..Len(lookup) : lookup[k].func = function
  THEN LET pos == CHOOSE k \in 1..Len(lookup) :
                    /\ lookup[k].func = function
                    /\ \A j \in 1..(k - 1) : lookup[j].func # function
       IN Some(lookup[pos].idx)
  ELSE None

\* a variant of lookup_function that registers a handle it does not know
lookup_function_Interning ==
  /\ panic = ""
  /\ pc \in {"new", "done"}
  /\ \E function \in Handles :
       LET r == lookup_function_of(function_lookup, function)
       IN IF r.some
          THEN /\ last' = [op |-> "lookup_function", arg |-> function, val |-> r.val]
               /\ UNCHANGED <<function_lookup, function_index_allocator>>
          ELSE /\ last' = [op |-> "lookup_function", arg |-> function,
                           val |-> function_index_allocator]
               /\ function_lookup' =
                    Append(function_lookup,
                           [func |-> function, idx |-> function_index_allocator])
               /\ function_index_allocator' = function_index_allocator + 1
  /\ UNCHANGED <<inputs, tables, elems, frames, function_index_translation,
                 phantom_functions, phantom_functions_ref, wasm_input_func_idx,
                 wasm_input_func_ref, pc, panic, func_index, mem_done, next_global>>

lookup_function ==
  /\ panic = ""
  /\ pc \in {"new", "done"}
  /\ \E function \in Handles :
       LET r == lookup_function_of(function_lookup, function)
       IN IF r.some
          THEN /\ last' = [op |-> "lookup_function", arg |-> function, val |-> r.val]
               /\ UNCHANGED <<pc, panic>>
          ELSE /\ last' = [op |-> "lookup_function", arg |-> function, val |-> 0]
               /\ pc' = pc
               /\ panic' = "lookup_function: unwrap on None"
  /\ UNCHANGED <<inputs, tables, elems, funcs, frames, func_index, mem_done, next_global>>

\* the positions a caller asks lookup_ientry for
ProbePositions == {0, 1, 3}

\* a variant that keeps scanning and returns the last row of the function
lookup_first_inst_of_Last(tbl, lookup, function) ==
  LET f == lookup_function_of(lookup, function)
  IN IF f.some /\ \E k \in 1..Len(tbl) : tbl[k].fid = f.val
     THEN Some(tbl[CHOOSE k \in 1..Len(tbl) :
                     /\ tbl[k].fid = f.val
                     /\ \A j \in (k + 1)..Len(tbl) : tbl[j].fid # f.val])
     ELSE None

\* lookup_first_inst: the first entry, in table order, of the function;
\* None is the panic of lookup_function's unwrap() or of unreachable!()
lookup_first_inst_of(tbl, lookup, function) ==
  LET f == lookup_function_of(lookup, function)
  IN IF f.some /\ \E k \in 1..Len(tbl) : tbl[k].fid = f.val
     THEN Some(tbl[CHOOSE k \in 1..Len(tbl) :
                     /\ tbl[k].fid = f.val
                     /\ \A j \in 1..(k - 1) : tbl[j].fid # f.val])
     ELSE None

\* lookup_ientry: the first entry, in table order, of the function at pos
lookup_ientry_of(tbl, lookup, function, pos) ==
  LET f == lookup_function_of(lookup, function)
      hit(k) == tbl[k].fid = f.val /\ tbl[k].iid = pos
  IN IF f.some /\ \E k \in 1..Len(tbl) : hit(k)
     THEN Some(tbl[CHOOSE k \in 1..Len(tbl) :
                     hit(k) /\ \A j \in 1..(k - 1) : ~hit(j)])
     ELSE None

lookup_first_inst ==
  /\ panic = ""
  /\ pc \in {"new", "done"}
  /\ \E function \in Handles :
       LET r == lookup_first_inst_of(itable, function_lookup, function)
       IN IF r.some
          THEN /\ last' = [op |-> "lookup_first_inst", arg |-> function, val |-> r.val]
               /\ UNCHANGED <<pc, panic>>
          ELSE /\ last' = [op |-> "lookup_first_inst", arg |-> function, val |-> 0]
               /\ pc' = pc
               /\ panic' = IF lookup_function_of(function_lookup, function).some
                           THEN "lookup_first_inst: unreachable"
                           ELSE "lookup_function: unwrap on None"
  /\ UNCHANGED <<inputs, tables, elems, funcs, frames, func_index, mem_done, next_global>>

lookup_ientry ==
  /\ panic = ""
  /\ pc \in {"new", "done"}
  /\ \E function \in Handles, pos \in ProbePositions :
       LET r == lookup_ientry_of(itable, function_lookup, function, pos)
           a == [function |-> function, pos |-> pos]
       IN IF r.some
          THEN /\ last' = [op |-> "lookup_ientry", arg |-> a, val |-> r.val]
               /\ UNCHANGED <<pc, panic>>
          ELSE /\ last' = [op |-> "lookup_ientry", arg |-> a, val |-> 0]
               /\ pc' = pc
               /\ panic' = IF lookup_function_of(function_lookup, function).some
                           THEN "lookup_ientry: unreachable"
                           ELSE "lookup_function: unwrap on None"
  /\ UNCHANGED <<inputs, tables, elems, funcs, frames, func_index, mem_done, next_global>>

(* --------------------------- specifications ---------------------------- *)
\* Tracer::new
TracerNew ==
  /\ itable = <<>>
  /\ imtable = <<>>
  /\ elem_table = <<>>
  /\ etable_eid = 0
  /\ last_jump_eid = <<>>
  /\ function_lookup = <<>>
  /\ function_index_allocator = FirstFuncIndex
  /\ function_index_translation = EmptyMap
  /\ phantom_functions_ref = <<>>
  /\ wasm_input_func_ref = None
  /\ wasm_input_func_idx = None
  /\ panic = ""
  /\ pc = "new"
  /\ func_index = 0
  /\ panic = ""
  /\ last = NoOp
  /\ mem_done = FALSE
  /\ next_global = 0
  /\ pushes = 0
  /\ pops = 0
  /\ elem_calls = <<>>

\* registration of a module and the lookups that follow it
Init ==
  /\ TracerNew
  /\ module \in Modules
  /\ phantom_functions \in PatternLists
  /\ memory = NoMemory
  /\ globals = <<>>
  /\ overflow_checks = FALSE

Next ==
  \/ set_wasm_input_func_ref
  \/ register_enter
  \/ register_translate
  \/ register_phantoms
  \/ register_itable
  \/ lookup_function
  \/ lookup_first_inst
  \/ lookup_ientry

Spec == Init /\ [][Next]_vars

\* the memory and global image
InitMem ==
  /\ TracerNew
  /\ module = NoModule
  /\ phantom_functions = <<>>
  /\ memory \in {m \in Memories : ValidMemory(m)}
  /\ globals \in GlobalLists
  /\ overflow_checks \in BOOLEAN

NextMem == push_init_memory \/ push_global

SpecMem == InitMem /\ [][NextMem]_vars

\* the indirect-call table
InitElem ==
  /\ TracerNew
  /\ module = NoModule
  /\ phantom_functions = <<>>
  /\ memory = NoMemory
  /\ globals = <<>>
  /\ overflow_checks = FALSE

NextElem == push_elem

SpecElem == InitElem /\ [][NextElem]_vars

\* the frame markers and the event counter
NextFrame == push_frame \/ pop_frame \/ get_last_jump_eid \/ eid \/ etable_push

SpecFrame == InitElem /\ [][NextFrame]_vars

\* a whole run: the snapshots of instantiation, registration, then execution
ExecModules ==
  { m \in Modules :
      /\ Len(m.funcs) = 2
      /\ m.funcs[1] = HostFunc(0, SigValue)
      /\ m.funcs[2].internal
      /\ m.start = Some(1)
      /\ Len(m.exports) = 3 }

InitExec ==
  /\ TracerNew
  /\ module \in ExecModules
  /\ phantom_functions = <<Pattern_get>>
  /\ memory = [initial |-> 0, maximum |-> None, fill |-> "zero"]
  /\ globals = <<G1>>
  /\ overflow_checks = FALSE

NextExec ==
  \/ push_init_memory
  \/ mem_done /\ push_global
  \/ next_global = Len(globals) /\ elem_calls = <<>> /\ push_elem
  \/ elem_calls # <<>> /\ set_wasm_input_func_ref
  \/ wasm_input_func_ref.some /\ register_enter
  \/ register_translate
  \/ register_phantoms
  \/ register_itable
  \/ pc = "done" /\ push_frame
  \/ pc = "done" /\ pop_frame
  \/ pc = "done" /\ get_last_jump_eid
  \/ pc = "done" /\ eid
  \/ pc = "done" /\ etable_push
  \/ pc = "done" /\ lookup_function
  \/ pc = "done" /\ lookup_ientry
  \/ pc = "done" /\ lookup_first_inst

SpecExec == InitExec /\ [][NextExec]_vars

(* ------------------------------- claims -------------------------------- *)
NumFuncs == Len(module.funcs)
NativeIdx == 0..(NumFuncs - 1)

\* the stable index recorded in the FuncDesc of native index i
IdxOf(i) == function_index_translation[i].index_within_jtable

\* the first loop of registration has covered every function
Translated == pc \in {"phantom", "itable", "done"}

\* the third loop of registration has been entered (and may have panicked)
InItablePhase == pc \in {"itable", "done"}

\* the functions the third loop has finished with
Processed == {i \in NativeIdx : i < func_index}

\* the rows of the instruction table under a stable index, in table order
RowsOf(fid) == SelectSeq(itable, LAMBDA r : r.fid = fid)

IsPhantom(i) == is_phantom_function(phantom_functions_ref, FuncRefOf(i))

\* C1: once the first loop has covered a module of N functions, a declared start
\* function is the one function with stable index 0 and the other N-1 functions
\* hold exactly the indices 1..N-1, one each; with no start function the N
\* functions hold exactly 1..N, one each, and none holds 0.
C1_StableIndices ==
  Translated =>
    /\ DOMAIN function_index_translation = NativeIdx
    /\ IF module.start.some
       THEN LET others == NativeIdx \ {module.start.val}
            IN /\ IdxOf(module.start.val) = 0
               /\ {IdxOf(i) : i \in others} = 1..(NumFuncs - 1)
               /\ \A i, j \in others : IdxOf(i) = IdxOf(j) => i = j
       ELSE /\ {IdxOf(i) : i \in NativeIdx} = 1..NumFuncs
            /\ \A i, j \in NativeIdx : IdxOf(i) = IdxOf(j) => i = j

C1_Witness ==
  /\ pc = "done"
  /\ NumFuncs = 3
  /\ module.start = Some(1)
  /\ IdxOf(1) = 0
  /\ IdxOf(2) = 2

\* C2: push_init_memory on a memory of P initial pages appends exactly P*8192+1
\* rows: row a (a = 0..P*8192-1) starts at word address a, and the last row
\* starts at P*8192.
C2_MemoryImageRows ==
  last.op = "push_init_memory" =>
    LET before == last.val
        n == last.arg * WordsPerPage
    IN /\ Len(imtable) = before + n + 1
       /\ \A a \in 0..n : imtable[before + a + 1].start_offset = ToU32(a)

\* C2, for the calls that return: a push_init_memory that did not panic has
\* appended the P*8192+1 rows (the panic is the subtraction for a maximum of 0).
C2_RowsWhenReturned == panic = "" => C2_MemoryImageRows

C2_ReturnedWitness ==
  /\ last.op = "push_init_memory"
  /\ panic = ""
  /\ memory.initial = 1
  /\ Len(imtable) = last.val + WordsPerPage + 1

\* the rows of the stub of function i, as the table holds them
StubRows(i) ==
  LET code == build_phantom_function_instructions(
                function_index_translation[i].signature, wasm_input_func_idx.val)
  IN [k \in 1..Len(code) |->
        [fid |-> IdxOf(i), iid |-> k - 1,
         opcode |-> IF code[k].op = "Call"
                    THEN [op |-> "Call", index |-> IdxOf(code[k].index)]
                    ELSE [op |-> code[k].op, index |-> code[k].index]]]

\* C3: the rows under the stable index of a phantom function are exactly the
\* stub of its signature, at positions 0..len-1, once the third loop has passed
\* the function, and there is no row under that index before: no row of its
\* body is ever stored.
C3_PhantomRowsAreStub ==
  InItablePhase =>
    \A i \in NativeIdx :
      IsPhantom(i) =>
        RowsOf(IdxOf(i)) = IF i \in Processed THEN StubRows(i) ELSE <<>>

C3_Witness ==
  /\ pc = "done"
  /\ \E i \in NativeIdx :
       /\ IsPhantom(i)
       /\ module.funcs[i + 1].internal
       /\ Len(RowsOf(IdxOf(i))) = 3
       /\ RowsOf(IdxOf(i))[2].opcode.op = "Call"

\* C4: the depth of the frame-marker stack is the number of push_frame calls
\* minus the number of pop_frame calls that returned, and never negative; a
\* pop_frame on an empty stack panics; after as many pops as pushes the stack is
\* back at its starting depth.
C4_FrameDepth ==
  /\ Len(last_jump_eid) = pushes - pops
  /\ pushes - pops >= 0
  /\ (last.op = "pop_frame" /\ last.arg = 0) =>
       panic = "pop_frame: unwrap on None"
  /\ (last.op = "pop_frame" /\ last.arg > 0) => panic = ""
  /\ pushes = pops => last_jump_eid = <<>>

C4_Witness ==
  /\ pushes = 2
  /\ pops = 2
  /\ last.op = "pop_frame"
  /\ last.arg = 0
  /\ panic = "pop_frame: unwrap on None"

\* C5: the indirect-call table holds one entry per push_elem call, in call
\* order, with the table index, type index, offset and function index of the
\* call; an entry for a (table index, offset) that is already there is added
\* beside the earlier one.
C5_ElemEntriesInOrder ==
  /\ Len(elem_table) = Len(elem_calls)
  /\ \A k \in 1..Len(elem_calls) :
       /\ elem_table[k].table_idx = elem_calls[k][1]
       /\ elem_table[k].offset = elem_calls[k][2]
       /\ elem_table[k].func_idx = elem_calls[k][3]
       /\ elem_table[k].type_idx = elem_calls[k][4]

C5_Witness ==
  /\ Len(elem_table) = 2
  /\ elem_table[1].table_idx = elem_table[2].table_idx
  /\ elem_table[1].offset = elem_table[2].offset
  /\ elem_table[1].func_idx # elem_table[2].func_idx

\* the rows the body of the module-defined function i must give: one per decoded
\* instruction, at the iterator's position, a call aimed at the callee's stable index
ExpectedBodyRows(i) ==
  LET code == module.funcs[i + 1].body
  IN [k \in 1..Len(code) |->
        [fid |-> IdxOf(i), iid |-> BodyPosition(code, k),
         opcode |-> IF code[k].op = "Call"
                    THEN [op |-> "Call", index |-> IdxOf(code[k].index)]
                    ELSE [op |-> code[k].op, index |-> code[k].index]]]

\* C6: a module-defined function that is not phantom has, once the third loop
\* has passed it, one row per decoded operation of its body, in source order
\* from position 0, and the target of every call row is the stable index of the
\* callee, whatever the callee's native index and also when it is the start
\* function.
C6_BodyRowsTranslated ==
  InItablePhase =>
    \A i \in Processed :
      (module.funcs[i + 1].internal /\ ~IsPhantom(i)) =>
        /\ RowsOf(IdxOf(i)) = ExpectedBodyRows(i)
        /\ RowsOf(IdxOf(i))[1].iid = 0

C6_Witness ==
  /\ pc = "done"
  /\ NumFuncs = 3
  /\ module.start = Some(1)
  /\ module.funcs[1].internal
  /\ ~IsPhantom(0)
  /\ RowsOf(IdxOf(0))[2] = [fid |-> 1, iid |-> 3, opcode |-> [op |-> "Call", index |-> 0]]
  /\ RowsOf(IdxOf(0))[4].opcode = [op |-> "Call", index |-> 1]

\* a pattern of the configuration matches an export that is a function and is
\* bound to the handle
MatchedByPattern(h) ==
  \E p \in 1..Len(phantom_functions), e \in 1..Len(module.exports) :
    /\ is_match(phantom_functions[p], module.exports[e].name)
    /\ module.exports[e].is_func
    /\ module.exports[e].func = h

\* C7: after the phantom-resolution step a handle is in the phantom set exactly
\* when a configured pattern matches the name of an export that is a function
\* bound to the handle; an export that is no function adds nothing.
C7_PhantomIffMatched ==
  /\ InItablePhase =>
       \A h \in Handles :
         is_phantom_function(phantom_functions_ref, h) <=> MatchedByPattern(h)
  /\ ~InItablePhase => phantom_functions_ref = <<>>

C7_Witness ==
  /\ pc = "itable"
  /\ IsPhantom(0)
  /\ ~IsPhantom(1)
  /\ \E e \in 1..Len(module.exports) :
       /\ ~module.exports[e].is_func
       /\ is_match(phantom_functions[1], module.exports[e].name)
       /\ ~is_phantom_function(phantom_functions_ref, module.exports[e].func)

\* C8 as stated: with a phantom pattern configured, the host input function is
\* mandatory: registration does not complete without a resolved index for it.
C8_MandatoryWhenConfigured ==
  (pc = "done" /\ phantom_functions # <<>>) => wasm_input_func_idx.some

\* C8 as amended: when a function is marked phantom and no function of the
\* module is the host input function, the third loop panics at the first phantom
\* function, so registration never completes and no stub row is stored; with no
\* function marked phantom, registration completes without it.
C8_PhantomNeedsInput ==
  (InItablePhase /\ ~wasm_input_func_idx.some) =>
    /\ pc = "done" => phantom_functions_ref = <<>>
    /\ \A i \in Processed : ~IsPhantom(i)
    /\ \A i \in NativeIdx : IsPhantom(i) => RowsOf(IdxOf(i)) = <<>>
    /\ panic = "wasm_input_func_idx: unwrap on None" =>
         (func_index \in NativeIdx /\ IsPhantom(func_index))

C8_Witness ==
  /\ panic = "wasm_input_func_idx: unwrap on None"
  /\ wasm_input_func_ref = Some(ForeignRef)
  /\ func_index = 1
  /\ IsPhantom(1)

\* the host slot of function i has no entry in the descriptor table
MissingSlot(i) ==
  /\ ~module.funcs[i + 1].internal
  /\ module.funcs[i + 1].host_func_index \notin DOMAIN host_function_index_lookup

\* C9: registration panics at the first host function whose slot has no
\* descriptor: the functions before it are registered, that function is not,
\* the phantom set and the instruction table are still empty, and a module with
\* such a function never gets past the first loop.
C9_MissingHostDescriptorAborts ==
  /\ panic = "lookup_host_plugin: unwrap on None" =>
       /\ pc = "translate"
       /\ MissingSlot(func_index)
       /\ DOMAIN function_index_translation = 0..(func_index - 1)
       /\ Len(function_lookup) = func_index
       /\ phantom_functions_ref = <<>>
       /\ itable = <<>>
  /\ (\E i \in NativeIdx : MissingSlot(i)) =>
       /\ pc \notin {"phantom", "itable", "done"}
       /\ itable = <<>>
  /\ (pc = "translate" /\ func_index < NumFuncs) => \A i \in Processed : ~MissingSlot(i)

C9_Witness ==
  /\ panic = "lookup_host_plugin: unwrap on None"
  /\ func_index = 1
  /\ phantom_functions # <<>>
  /\ itable = <<>>

\* C10: lookup_function returns, for the handle of a registered function, the
\* stable index of that function's FuncDesc, and panics for any other handle.
C10_LookupFunction ==
  last.op = "lookup_function" =>
    IF last.arg.inst = "self" /\ last.arg.idx \in DOMAIN function_index_translation
    THEN /\ panic = ""
         /\ last.val = IdxOf(last.arg.idx)
    ELSE panic = "lookup_function: unwrap on None"

C10_Witness ==
  /\ pc = "done"
  /\ panic = ""
  /\ last.op = "lookup_function"
  /\ last.arg = FuncRefOf(1)
  /\ last.val = 0
  /\ NumFuncs = 3

\* a handle that was never registered is looked up after registration
C10_WitnessForeign ==
  /\ panic = "lookup_function: unwrap on None"
  /\ last.op = "lookup_function"
  /\ last.arg = ForeignRef
  /\ function_lookup # <<>>

\* C11: lookup_first_inst returns, among the rows whose function index is the
\* stable index of the handle, the row with the smallest position; when the
\* function has no row (or the handle is not registered) the call panics.
C11_FirstInstSmallestPosition ==
  last.op = "lookup_first_inst" =>
    IF /\ last.arg.inst = "self"
       /\ last.arg.idx \in DOMAIN function_index_translation
       /\ RowsOf(IdxOf(last.arg.idx)) # <<>>
    THEN /\ panic = ""
         /\ \E k \in 1..Len(itable) : itable[k] = last.val
         /\ last.val.fid = IdxOf(last.arg.idx)
         /\ \A k \in 1..Len(itable) :
              itable[k].fid = last.val.fid => last.val.iid <= itable[k].iid
    ELSE panic # ""

\* the first row of a function with several rows, stored after another function's
C11_Witness ==
  /\ pc = "done"
  /\ panic = ""
  /\ last.op = "lookup_first_inst"
  /\ Len(RowsOf(last.val.fid)) >= 2
  /\ itable[1].fid # last.val.fid

\* a registered host function that is not phantom has no row to return
C11_WitnessNoRow ==
  /\ pc = "done"
  /\ panic = "lookup_first_inst: unreachable"
  /\ last.op = "lookup_first_inst"
  /\ last.arg.idx \in DOMAIN function_index_translation
  /\ itable # <<>>

\* C12: the row push_init_memory emits after the P*8192 words starts at P*8192,
\* ends at maximum*8192-1 (on u32) when a maximum is declared and at 2^32-1
\* otherwise, and has value 0, for every declared maximum, 0 included.
C12_SentinelRow ==
  last.op = "push_init_memory" =>
    LET n == last.arg * WordsPerPage
        k == last.val + n + 1
    IN /\ Len(imtable) = k
       /\ imtable[k].start_offset = ToU32(n)
       /\ imtable[k].end_offset =
            IF memory.maximum.some
            THEN WrappingDec(memory.maximum.val * WordsPerPage)
            ELSE U32_MAX
       /\ imtable[k].value = U64Zero

\* C12, for the calls that return: the sentinel is as stated whenever the
\* subtraction did not panic.
C12_SentinelWhenReturned == panic = "" => C12_SentinelRow

\* a maximum of 0 in a wrapping build: the sentinel ends at 2^32-1
C12_WrappedWitness ==
  /\ last.op = "push_init_memory"
  /\ panic = ""
  /\ memory.maximum = Some(0)
  /\ imtable[Len(imtable)].end_offset = U32_MAX

\* a maximum of 0 in a build with overflow checks: no sentinel is emitted
C12_PanicWitness ==
  /\ last.op = "push_init_memory"
  /\ panic = "attempt to subtract with overflow"
  /\ memory.maximum = Some(0)
  /\ overflow_checks
  /\ imtable = <<>>

\* the 64-bit value whose least significant byte is the byte at address b of
\* the memory, and whose most significant byte is the byte at address b + 7
WordAt(b) ==
  << MemByte(memory, b + 6) + 256 * MemByte(memory, b + 7),
     MemByte(memory, b + 4) + 256 * MemByte(memory, b + 5),
     MemByte(memory, b + 2) + 256 * MemByte(memory, b + 3),
     MemByte(memory, b) + 256 * MemByte(memory, b + 1) >>

\* the row push_init_memory has just emitted for word address a
WordRow(a) == imtable[last.val + a + 1]

\* the parts of C13 other than the mutability tag
WordRowShape(a) ==
  /\ ~WordRow(a).is_global
  /\ WordRow(a).start_offset = ToU32(a)
  /\ WordRow(a).end_offset = ToU32(a)
  /\ WordRow(a).vtype = "I64"
  /\ WordRow(a).value = WordAt(BytesPerWord * a)

\* C13: every memory word row emitted by push_init_memory is tagged non-global
\* and immutable, has the word address as both range endpoints, 64-bit type,
\* and the little-endian decoding of the 8 bytes at byte offset 8 * address.
C13_WordRowsImmutable ==
  last.op = "push_init_memory" =>
    \A a \in 0..(last.arg * WordsPerPage - 1) :
      WordRowShape(a) /\ ~WordRow(a).is_mutable

\* C13, amended: the word rows are tagged non-global and mutable; endpoints,
\* type and value are as stated.
C13_WordRowsMutable ==
  last.op = "push_init_memory" =>
    \A a \in 0..(last.arg * WordsPerPage - 1) :
      WordRowShape(a) /\ WordRow(a).is_mutable

\* one page of non-zero bytes has been snapshotted after a global
C13_Witness ==
  /\ last.op = "push_init_memory"
  /\ panic = ""
  /\ last.arg = 1
  /\ last.val = 1
  /\ memory.fill = "mix"
  /\ WordRow(1).value # U64Zero
  /\ WordRow(1).value # WordRow(2).value

\* the order in which the steps of register_module_instance follow each other
PhaseOrder ==
  { <<"new", "translate">>, <<"translate", "phantom">>,
    <<"phantom", "itable">>, <<"itable", "done">> }

\* C14: within register_module_instance a row is appended to the instruction
\* table only when the translation map holds a FuncDesc for every function of
\* the module and the phantom set has been resolved; the map is built first,
\* the phantom set second, the rows third, and neither the map nor the phantom
\* set changes in a step that appends rows.
C14_StepsInOrder ==
  [][ /\ itable' # itable =>
           /\ pc = "itable"
           /\ DOMAIN function_index_translation = NativeIdx
           /\ phantom_functions_ref =
                ResolvePhantoms(<<>>, phantom_functions, module.exports)
           /\ UNCHANGED <<function_index_translation, phantom_functions_ref>>
      /\ function_index_translation' # function_index_translation =>
           /\ pc = "translate"
           /\ phantom_functions_ref = <<>>
           /\ itable = <<>>
      /\ phantom_functions_ref' # phantom_functions_ref =>
           /\ pc = "phantom"
           /\ DOMAIN function_index_translation = NativeIdx
           /\ itable = <<>>
      /\ pc' # pc => <<pc, pc'>> \in PhaseOrder
    ]_vars

\* rows are being appended for a module of three functions, one of them phantom
C14_Witness ==
  /\ pc = "itable"
  /\ panic = ""
  /\ NumFuncs = 3
  /\ func_index = 2
  /\ itable # <<>>
  /\ phantom_functions_ref # <<>>
  /\ DOMAIN function_index_translation = NativeIdx

\* the native indices of the functions whose handle is the host-input reference
InputNative == {j \in NativeIdx : Some(FuncRefOf(j)) = wasm_input_func_ref}

\* C15: a call row stored under the stable index of a phantom function targets
\* the stable index of the function the host-input reference resolved to, not
\* that function's native index.
C15_StubCallsStableInput ==
  InItablePhase =>
    \A i \in NativeIdx, k \in 1..Len(itable) :
      (IsPhantom(i) /\ itable[k].fid = IdxOf(i) /\ itable[k].opcode.op = "Call") =>
        \E j \in InputNative : itable[k].opcode.index = IdxOf(j)

\* the host-input function has native index 0 and stable index 1, and a stub
\* that calls it is in the table
C15_Witness ==
  /\ pc = "done"
  /\ InputNative = {0}
  /\ IdxOf(0) = 1
  /\ \E i \in NativeIdx, k \in 1..Len(itable) :
       /\ IsPhantom(i)
       /\ itable[k].fid = IdxOf(i)
       /\ itable[k].opcode = [op |-> "Call", index |-> 1]

\* the (function index, position) pair of row k of the instruction table
PairOf(k) == <<itable[k].fid, itable[k].iid>>

C17_LastJumpEid ==
  [][ /\ (last'.op = "last_jump_eid" /\ panic' = "") =>
           /\ last_jump_eid # <<>>
           /\ last'.val = last_jump_eid[Len(last_jump_eid)]
           /\ last_jump_eid' = last_jump_eid
      /\ Len(last_jump_eid') > Len(last_jump_eid) =>
           /\ last'.op = "push_frame"
           /\ last_jump_eid' = Append(last_jump_eid, etable_eid)
           /\ etable_eid' = etable_eid
      /\ Len(last_jump_eid') < Len(last_jump_eid) =>
           /\ last'.op = "pop_frame"
           /\ last_jump_eid' = SubSeq(last_jump_eid, 1, Len(last_jump_eid) - 1)
      /\ Len(last_jump_eid') = Len(last_jump_eid) => last_jump_eid' = last_jump_eid
    ]_vars

\* two frames are open, entered at event ids 0 and 2, a third one was entered
\* at 1 and left, and the counter has moved on to 3
C17_Witness ==
  /\ last.op = "last_jump_eid"
  /\ panic = ""
  /\ last_jump_eid = <<0, 2>>
  /\ last.val = 2
  /\ pops = 1
  /\ etable_eid = 3

\* C19: with an event counter that only increases, the frame markers are
\* non-decreasing from the bottom of the stack to its top and none exceeds the
\* current event id, which is what eid returns.
C19_MarkersMonotone ==
  /\ \A k \in 1..(Len(last_jump_eid) - 1) : last_jump_eid[k] <= last_jump_eid[k + 1]
  /\ \A k \in 1..Len(last_jump_eid) : last_jump_eid[k] <= etable_eid
  /\ last.op = "eid" => last.val = etable_eid

\* three open frames, two of them entered at the same event id, behind the counter
C19_Witness ==
  /\ last_jump_eid = <<0, 1, 1>>
  /\ etable_eid = 2
  /\ last.op = "eid"
  /\ last.val = 2

\* C18: once registration has completed, no operation of the execution phase
\* (push_frame, pop_frame, last_jump_eid, eid, lookup_function, lookup_ientry,
\* lookup_first_inst) changes the translation map, the function lookup list,
\* the index allocator, the phantom set, the instruction table, the
\* memory/global image or the indirect-call table.
C18_ExecutionLeavesTables ==
  [][ pc = "done" =>
        UNCHANGED <<function_index_translation, function_lookup,
                    function_index_allocator, phantom_functions_ref,
                    itable, imtable, elem_table>> ]_vars

\* frames have been entered and left and a row has been looked up, after a
\* registration that filled every table
C18_Witness ==
  /\ pc = "done"
  /\ panic = ""
  /\ last.op = "lookup_ientry"
  /\ last.val.iid = 3
  /\ pushes = 2
  /\ pops = 1
  /\ etable_eid > 0
  /\ phantom_functions_ref # <<>>
  /\ Len(itable) > 3
  /\ Len(imtable) = 2
  /\ Len(elem_table) = 1

\* the functions registration stores rows for: the phantom ones (their stub is
\* never empty) and the module-defined ones with a non-empty body
HasRows(i) ==
  \/ IsPhantom(i)
  \/ module.funcs[i + 1].internal /\ module.funcs[i + 1].body # <<>>

\* the handle is the one of a registered function that has rows
HandleHasRows(h) == h.inst = "self" /\ h.idx \in NativeIdx /\ HasRows(h.idx)

\* C20: after registration a host function that is not phantom has no row, the
\* stable indices that occur in the instruction table are exactly those of the
\* phantom functions and of the module-defined functions with a body, and
\* lookup_first_inst and lookup_ientry (at position 0) return for exactly the
\* handles of those functions and panic for every other handle.
C20_RowsExactlyForStubsAndBodies ==
  pc = "done" =>
    /\ \A i \in NativeIdx :
         (~module.funcs[i + 1].internal /\ ~IsPhantom(i)) => RowsOf(IdxOf(i)) = <<>>
    /\ {itable[k].fid : k \in 1..Len(itable)} =
         {IdxOf(i) : i \in {j \in NativeIdx : HasRows(j)}}
    /\ last.op = "lookup_first_inst" => (panic = "" <=> HandleHasRows(last.arg))
    /\ last.op = "lookup_ientry" =>
         /\ panic = "" => HandleHasRows(last.arg.function)
         /\ last.arg.pos = 0 => (panic = "" <=> HandleHasRows(last.arg.function))

\* of two host functions one is phantom and has its stub, the other has no row
\* and the lookup of its first row has panicked
C20_Witness ==
  /\ pc = "done"
  /\ NumFuncs = 3
  /\ ~module.funcs[1].internal /\ IsPhantom(0) /\ Len(RowsOf(IdxOf(0))) = 3
  /\ ~module.funcs[2].internal /\ ~IsPhantom(1) /\ RowsOf(IdxOf(1)) = <<>>
  /\ last.op = "lookup_ientry"
  /\ last.arg = [function |-> FuncRefOf(1), pos |-> 0]
  /\ panic = "lookup_ientry: unreachable"

\* the lookups return for the phantom host function
C20_WitnessStub ==
  /\ pc = "done"
  /\ panic = ""
  /\ last.op = "lookup_ientry"
  /\ last.arg.pos = 1
  /\ ~module.funcs[last.arg.function.idx + 1].internal
  /\ last.val.opcode.op = "Call"

====
